---- MODULE Spec2Model ----
(***************************************************************************)
(* Model of the agentic tool-use loop of the automation chatbot backend:   *)
(* ClaudeService.chat (app/services/claude_service.py) driven by the SSE   *)
(* event_generator of app/api/routes/n8n_chat.py.                          *)
(*                                                                         *)
(* Text is modelled as a sequence of tokens (fences, braces, brackets,     *)
(* JSON strings, numbers, words, white space); a JSON value is the token   *)
(* sequence of its serialisation with white space removed.                 *)
(***************************************************************************)
EXTENDS Integers, Sequences, FiniteSets, TLC

(***************************************************************************)
(* Tokens of assistant text.                                               *)
(***************************************************************************)
FenceJson == "'''json"
Fence == "'''"
WsTokens == {" "}
StrTokens == {"\"nodes\"", "\"name\"", "\"a\"", "\"b\"", "\"ab\"", "\"\""}
NumTokens == {"1", "2", "3"}
LitTokens == {"true", "false", "null"}
NodesKey == "\"nodes\""

\* The characters of a JSON string, each as a one-character string.
StrChars(tok) ==
    CASE tok = "\"ab\"" -> <<"\"a\"", "\"b\"">>
      [] tok = "\"a\"" -> <<"\"a\"">>
      [] tok = "\"b\"" -> <<"\"b\"">>
      [] tok = "\"\"" -> <<>>
      [] tok = "\"name\"" -> <<"\"n\"", "\"a\"", "\"m\"", "\"e\"">>
      [] tok = "\"nodes\"" -> <<"\"n\"", "\"o\"", "\"d\"", "\"e\"", "\"s\"">>
      [] OTHER -> <<tok>>

\* str.find(token) on the token level: first index >= from holding a token
\* of toks, 0 when there is none.
RECURSIVE find(_, _, _)
find(text, toks, from) ==
    IF from > Len(text) THEN 0
    ELSE IF text[from] \in toks THEN from
    ELSE find(text, toks, from + 1)

Contains(text, toks) == \E i \in 1..Len(text) : text[i] \in toks

\* str.strip(): leading and trailing white space removed.
RECURSIVE lstrip(_)
lstrip(s) == IF s # <<>> /\ Head(s) \in WsTokens THEN lstrip(Tail(s)) ELSE s
RECURSIVE rstrip(_)
rstrip(s) ==
    IF s # <<>> /\ s[Len(s)] \in WsTokens THEN rstrip(SubSeq(s, 1, Len(s) - 1)) ELSE s
strip(s) == rstrip(lstrip(s))

\* The JSON scanner skips white space between tokens.
NoWs(s) == SelectSeq(s, LAMBDA t : t \notin WsTokens)

(***************************************************************************)
(* json.loads on token sequences.  ValueEnd(t, i) is the index after the   *)
(* JSON value that starts at t[i], 0 when no value starts there.           *)
(***************************************************************************)
RECURSIVE ValueEnd(_, _)
RECURSIVE ElementsEnd(_, _)
RECURSIVE MembersEnd(_, _)
ValueEnd(t, i) ==
    IF i > Len(t) THEN 0
    ELSE IF t[i] \in StrTokens \cup NumTokens \cup LitTokens THEN i + 1
    ELSE IF t[i] = "[" THEN
        IF i + 1 <= Len(t) /\ t[i + 1] = "]" THEN i + 2 ELSE ElementsEnd(t, i + 1)
    ELSE IF t[i] = "{" THEN
        IF i + 1 <= Len(t) /\ t[i + 1] = "}" THEN i + 2 ELSE MembersEnd(t, i + 1)
    ELSE 0
ElementsEnd(t, i) ==
    LET e == ValueEnd(t, i) IN
    IF e = 0 \/ e > Len(t) THEN 0
    ELSE IF t[e] = "]" THEN e + 1
    ELSE IF t[e] = "," THEN ElementsEnd(t, e + 1)
    ELSE 0
MembersEnd(t, i) ==
    IF i + 1 > Len(t) \/ t[i] \notin StrTokens \/ t[i + 1] # ":" THEN 0
    ELSE LET e == ValueEnd(t, i + 2) IN
         IF e = 0 \/ e > Len(t) THEN 0
         ELSE IF t[e] = "}" THEN e + 1
         ELSE IF t[e] = "," THEN MembersEnd(t, e + 1)
         ELSE 0

\* json.loads(s): ok is FALSE for a JSONDecodeError, else val is the value.
json_loads(s) ==
    LET t == NoWs(s) IN
    IF t # <<>> /\ ValueEnd(t, 1) = Len(t) + 1
    THEN [ok |-> TRUE, val |-> t]
    ELSE [ok |-> FALSE, val |-> <<>>]

isdict(v) == v # <<>> /\ v[1] = "{"
islist(v) == v # <<>> /\ v[1] = "["
isstr(v) == Len(v) = 1 /\ v[1] \in StrTokens

\* The elements of a JSON list, in order (v is a valid list value).
RECURSIVE ListFrom(_, _)
ListFrom(v, i) ==
    IF v[i] = "]" THEN <<>>
    ELSE LET e == ValueEnd(v, i) IN
         <<SubSeq(v, i, e - 1)>> \o (IF v[e] = "," THEN ListFrom(v, e + 1) ELSE <<>>)
ListItems(v) == ListFrom(v, 2)

\* The members <<key, value>> of a JSON object, in document order.
RECURSIVE MembersFrom(_, _)
MembersFrom(v, i) ==
    IF v[i] = "}" THEN <<>>
    ELSE LET e == ValueEnd(v, i + 2) IN
         <<[key |-> v[i], value |-> SubSeq(v, i + 2, e - 1)]>>
            \o (IF v[e] = "," THEN MembersFrom(v, e + 1) ELSE <<>>)
Members(v) == MembersFrom(v, 2)

\* key in d, for a dict d.
HasKey(d, key) == \E i \in 1..Len(Members(d)) : Members(d)[i].key = key

\* The keys of a dict in insertion order, a repeated key keeping its first place.
DictKeys(d) ==
    LET m == Members(d) IN
    LET keep == {i \in 1..Len(m) : \A j \in 1..(i - 1) : m[j].key # m[i].key} IN
    LET F[i \in 0..Len(m)] ==
            IF i = 0 THEN <<>>
            ELSE IF i \in keep THEN Append(F[i - 1], <<m[i].key>>) ELSE F[i - 1]
    IN F[Len(m)]

\* d.get(key, default): json.loads keeps the last of the members with one key.
DictGet(d, key, default) ==
    LET m == Members(d) IN
    LET hits == {i \in 1..Len(m) : m[i].key = key} IN
    IF hits = {} THEN default
    ELSE m[CHOOSE i \in hits : \A j \in hits : j <= i].value

\* len(v) is defined for lists, dicts and strings and raises TypeError otherwise.
HasLen(v) == islist(v) \/ isdict(v) \/ isstr(v)

\* What iteration over v yields: list elements, dict keys, string characters.
Iterate(v) ==
    IF islist(v) THEN ListItems(v)
    ELSE IF isdict(v) THEN DictKeys(v)
    ELSE IF isstr(v) THEN [i \in 1..Len(StrChars(v[1])) |-> <<StrChars(v[1])[i]>>]
    ELSE <<>>

(***************************************************************************)
(* re.finditer over the fallback pattern of _extract_workflow: an opening   *)
(* brace, a brace-free run, any number of groups "brace-free object then    *)
(* brace-free run", a closing brace.  The braces after the opening one must *)
(* read ({ })* }; nothing else can match.                                   *)
(***************************************************************************)
Braces == {"{", "}"}

\* With the opening brace consumed, the index of the brace closing the match
\* when searching on from p, 0 if the match fails.
RECURSIVE MatchClose(_, _)
MatchClose(text, p) ==
    LET j == find(text, Braces, p) IN
    IF j = 0 THEN 0
    ELSE IF text[j] = "}" THEN j
    ELSE LET k == find(text, Braces, j + 1) IN
         IF k = 0 \/ text[k] = "{" THEN 0 ELSE MatchClose(text, k + 1)

\* The non-overlapping matches from position pos on, leftmost first.
RECURSIVE finditer(_, _)
finditer(text, pos) ==
    LET i == find(text, {"{"}, pos) IN
    IF i = 0 THEN <<>>
    ELSE LET e == MatchClose(text, i + 1) IN
         IF e = 0 THEN finditer(text, i + 1)
         ELSE <<SubSeq(text, i, e)>> \o finditer(text, e + 1)

\* Candidate with every parsed object accepted, with or without "nodes".
CandidateAnyObject(json_str) ==
    LET r == json_loads(json_str) IN
    IF r.ok /\ isdict(r.val) THEN "accept" ELSE "reject"

\* The validation of one parsed candidate: "accept" returns it, "raise" is the
\* TypeError of len() in the log line, "reject" goes on.
Candidate(json_str) ==
    LET r == json_loads(json_str) IN
    IF ~r.ok THEN "reject"
    ELSE IF isdict(r.val) /\ HasKey(r.val, NodesKey)
         THEN IF HasLen(DictGet(r.val, NodesKey, <<"[", "]">>)) THEN "accept" ELSE "raise"
         ELSE "reject"

\* The fallback loop over the regex matches; <<>> is None.
RECURSIVE ScanMatches(_)
ScanMatches(ms) ==
    IF ms = <<>> THEN <<>>
    ELSE LET c == Candidate(Head(ms)) IN
         IF c = "accept" THEN NoWs(Head(ms))
         ELSE IF c = "raise" THEN <<>>
         ELSE ScanMatches(Tail(ms))

PlainJson(text) ==
    IF Contains(text, {"{"}) /\ Contains(text, {"}"}) /\ Contains(text, {NodesKey, "nodes"})
    THEN ScanMatches(finditer(text, 1))
    ELSE <<>>

\* _extract_workflow(text): the workflow as a dict, <<>> for None.
_extract_workflow(text) ==
    IF Contains(text, {FenceJson}) THEN
        LET start == find(text, {FenceJson}, 1) + 1 IN
        LET e == find(text, {Fence, FenceJson}, start) IN
        LET end == IF e = 0 THEN Len(text) + 1 ELSE e IN
        LET json_str == strip(SubSeq(text, start, end - 1)) IN
        LET c == Candidate(json_str) IN
        IF c = "accept" THEN NoWs(json_str)
        ELSE IF c = "raise" THEN <<>>
        ELSE PlainJson(text)
    ELSE PlainJson(text)

(***************************************************************************)
(* Program constants of ClaudeService.chat.                                *)
(***************************************************************************)
max_iterations == 15
max_retries == 3
initial_retry_delay == 2

\* The tool names _execute_tool dispatches on.
method_map ==
    {"search_nodes", "get_node_essentials", "validate_workflow", "search_templates",
     "get_template", "n8n_create_workflow", "n8n_list_workflows", "n8n_get_workflow",
     "n8n_execute_workflow"}

(***************************************************************************)
(* The environment: provider responses, provider failures, tool outcomes.  *)
(***************************************************************************)
\* With the free provider, the number of messages.create calls whose outcome
\* is unrestricted; the calls after them end the run (FinalOutcomes).
MaxVaried == 2

TextPlain == <<"No", " ", "results">>
TextWorkflow ==
    <<"Here", FenceJson, " ", "{", NodesKey, ":", "[", "{", "\"name\"", ":", "\"a\"", "}", ",",
      "{", "\"name\"", ":", "\"b\"", "}", "]", "}", " ", Fence>>
TextNumbers ==
    <<FenceJson, " ", "{", NodesKey, ":", "[", "1", ",", "2", ",", "3", "]", ",",
      "\"name\"", ":", "true", "}", " ", Fence>>
TextEmptyNodes == <<FenceJson, "{", NodesKey, ":", "[", "]", "}", Fence>>
TextNoMarker == <<FenceJson, "{", "\"name\"", ":", "\"a\"", "}", Fence>>
TextMalformed == <<FenceJson, "{", NodesKey, ":", "[", "{", Fence>>
TextRaw == <<"See", "{", NodesKey, ":", "[", "{", "\"name\"", ":", "\"a\"", "}", "]", "}">>
Texts ==
    {TextPlain, TextWorkflow, TextNumbers, TextEmptyNodes, TextNoMarker, TextMalformed, TextRaw}

Block(type, text, id, name, is_error) ==
    [type |-> type, text |-> text, id |-> id, name |-> name, is_error |-> is_error]
TextBlock(text) == Block("text", text, 0, "", "absent")
ToolUseBlock(id, name) == Block("tool_use", <<>>, id, name, "absent")

Contents ==
    {<<TextBlock(t)>> : t \in Texts}
    \cup {<<>>,
          <<ToolUseBlock(0, "search_nodes")>>,
          <<ToolUseBlock(0, "bogus_tool")>>,
          <<TextBlock(TextPlain), ToolUseBlock(0, "search_nodes")>>,
          <<ToolUseBlock(0, "search_nodes"), TextBlock(TextPlain)>>,
          <<ToolUseBlock(0, "search_nodes"), ToolUseBlock(0, "get_template")>>}

StopReasons == {"end_turn", "tool_use", "max_tokens", "stop_sequence"}

Outcome(kind, content, stop_reason) ==
    [kind |-> kind, content |-> content, stop_reason |-> stop_reason]

\* What one messages.create call can do: return a Message, raise
\* RateLimitError, or raise another exception (a timeout, a permanent failure).
Outcomes ==
    {Outcome("ok", c, "end_turn") : c \in Contents}
    \cup {Outcome("ok", c, "tool_use") : c \in Contents \ {<<TextBlock(t)>> : t \in Texts \ {TextPlain}}}
    \cup {Outcome("ok", <<TextBlock(t)>>, "max_tokens") : t \in {TextPlain, TextWorkflow}}
    \cup {Outcome("ok", <<TextBlock(TextPlain)>>, "stop_sequence")}
    \cup {Outcome(k, <<>>, "") : k \in {"rate_limit", "timeout", "permanent"}}

\* The outcomes left to the free provider once MaxVaried calls are used up.
FinalOutcomes ==
    {Outcome("ok", <<TextBlock(t)>>, "end_turn") : t \in {TextPlain, TextWorkflow}}
    \cup {Outcome(k, <<>>, "") : k \in {"rate_limit", "permanent"}}

\* The stubbed collaborators a run is driven with: the free provider, or a
\* provider that always asks for a tool (with tools that work, or tools that
\* always fail), one that is always rate limited, one that fails until the
\* last attempt of every turn, and one that asks for a search and then
\* answers in plain text.
Stubs == {"free", "tool_loop", "failing_tools", "rate_limited", "flaky", "search_then_text"}

\* The outcome a stubbed provider gives attempt number "attempt" of the turn
\* that follows "turn" successful calls.
StubOutcome(mode, attempt, turn) ==
    CASE mode \in {"tool_loop", "failing_tools"} ->
            Outcome("ok", <<ToolUseBlock(0, "search_nodes")>>, "tool_use")
      [] mode = "rate_limited" -> Outcome("rate_limit", <<>>, "")
      [] mode = "search_then_text" ->
            IF turn = 0 THEN Outcome("ok", <<ToolUseBlock(0, "search_nodes")>>, "tool_use")
            ELSE Outcome("ok", <<TextBlock(TextPlain)>>, "end_turn")
      [] OTHER -> IF attempt < max_retries - 1
                  THEN Outcome("rate_limit", <<>>, "")
                  ELSE Outcome("ok", <<>>, "tool_use")

\* The provider gives every tool-use block of a response its own id.
WithIds(content, n) ==
    [i \in 1..Len(content) |->
        IF content[i].type = "tool_use" THEN [content[i] EXCEPT !.id = 10 * n + i] ELSE content[i]]

UserMessage == <<"do", "X">>
Message(role, content) == [role |-> role, content |-> content]
Histories ==
    {<<>>,
     <<Message("user", <<Block("string", <<"hi">>, 0, "", "absent")>>),
       Message("assistant", <<Block("string", <<"hello">>, 0, "", "absent")>>)>>}

NoResponse == Outcome("none", <<>>, "")

(***************************************************************************)
(* Chunks yielded by ClaudeService.chat and events sent by event_generator.*)
(***************************************************************************)
Chunk(type, content, tool_name, index, total) ==
    [type |-> type, content |-> content, tool_name |-> tool_name, index |-> index, total |-> total]

SseEvent(type, data, tool_name, success, index, total) ==
    [type |-> type, data |-> data, tool_name |-> tool_name, success |-> success,
     index |-> index, total |-> total]

\* Forward with the events of tool use left out.
ForwardWithoutTools(chunk) ==
    CASE chunk.type = "message" ->
            <<SseEvent("message", chunk.content, "", FALSE, 0, 0)>>
      [] chunk.type = "workflow_clear" ->
            <<SseEvent("workflow_clear", <<>>, "", FALSE, 0, 0)>>
      [] chunk.type = "workflow_node" ->
            <<SseEvent("workflow_node", chunk.content, "", FALSE, chunk.index, chunk.total)>>
      [] chunk.type = "error" ->
            <<SseEvent("error", chunk.content, "", FALSE, 0, 0)>>
      [] OTHER -> <<>>

\* The body of the "async for chunk" loop of event_generator: the events it
\* sends for one chunk.  A "workflow" chunk is stored, not sent.
Forward(chunk) ==
    CASE chunk.type = "message" ->
            <<SseEvent("message", chunk.content, "", FALSE, 0, 0)>>
      [] chunk.type = "tool_use" ->
            <<SseEvent("tool_use", <<>>, chunk.tool_name, FALSE, 0, 0)>>
      [] chunk.type = "tool_result" ->
            <<SseEvent("tool_result", <<>>, chunk.tool_name, TRUE, 0, 0)>>
      [] chunk.type = "workflow_clear" ->
            <<SseEvent("workflow_clear", <<>>, "", FALSE, 0, 0)>>
      [] chunk.type = "workflow_node" ->
            <<SseEvent("workflow_node", chunk.content, "", FALSE, chunk.index, chunk.total)>>
      [] chunk.type = "error" ->
            <<SseEvent("error", chunk.content, "", FALSE, 0, 0)>>
      [] OTHER -> <<>>

Call(kind, name, arg, at) == [kind |-> kind, name |-> name, arg |-> arg, at |-> at]

VARIABLES
    pc,                    \* position of the run
    conversation_history,  \* the caller's history list
    messages,              \* the message list of chat
    accumulated_text,      \* chat: text of all text blocks so far
    iteration,             \* chat: successful provider calls
    retry,                 \* chat: index of the attempt of this turn
    retry_delay,           \* chat: next backoff wait
    response,              \* chat: the last provider response
    block_idx,             \* chat: position in response.content
    assistant_content,     \* chat: blocks of the turn not yet appended
    tool_result,           \* chat: result of the last tool execution
    workflow,              \* chat: the extracted workflow, <<>> for None
    node_idx,              \* chat: position in the nodes of the workflow
    chunks,                \* everything chat has yielded
    sse,                   \* everything event_generator has sent
    workflow_data,         \* event_generator: the stored workflow chunk
    calls,                 \* the outgoing calls: provider, tool, backoff sleep
    stub,                  \* the stubbed collaborators of this run
    consuming,             \* the client still reads the event stream
    data,                  \* _convert_keys_to_snake_case: the dict passed in
    python_input,          \* _execute_tool: the converted dict
    _request_id,           \* N8nMcpClient: the next JSON-RPC id
    _initialized,          \* N8nMcpClient: the MCP session is initialized
    run_pc,                \* per concurrent run: its position in _call_tool
    sent,                  \* per concurrent run: the requests it has posted
    script,                \* replay: the inputs both runs are given
    first                  \* replay: what the first run produced

vars ==
    <<pc, conversation_history, messages, accumulated_text, iteration, retry, retry_delay,
      response, block_idx, assistant_content, tool_result, workflow, node_idx, chunks, sse,
      workflow_data, calls, stub, consuming, data, python_input, _request_id, _initialized,
      run_pc, sent, script, first>>

\* The state of the process-wide MCP client and of the runs that call it.
clientVars == <<_request_id, _initialized, run_pc, sent>>

\* The inputs and the record of a replayed run.
replayVars == <<script, first>>

\* The state outside of one chat stream.
unitVars == <<data, python_input, clientVars, replayVars>>

\* The concurrent runs (user sessions) that share the service singleton.
Runs == {1, 2}

\* No run is being replayed.
NoReplay ==
    /\ script = [history |-> <<>>, provider |-> <<>>, tool |-> "ok"]
    /\ first = [run |-> 1, messages |-> <<>>, chunks |-> <<>>]

\* N8nMcpClient.__init__, before any run has called a tool.
ClientInit ==
    /\ _request_id = 1
    /\ _initialized = FALSE
    /\ run_pc = [r \in Runs |-> "idle"]
    /\ sent = [r \in Runs |-> <<>>]

chatVars ==
    <<accumulated_text, iteration, retry, retry_delay, response, block_idx,
      assistant_content, tool_result, workflow, node_idx>>

NumCalls(kind) == Cardinality({i \in 1..Len(calls) : calls[i].kind = kind})

Init ==
    /\ pc = "start"
    /\ conversation_history \in Histories
    /\ messages = <<>>
    /\ accumulated_text = <<>>
    /\ iteration = 0
    /\ retry = 0
    /\ retry_delay = 0
    /\ response = NoResponse
    /\ block_idx = 0
    /\ assistant_content = <<>>
    /\ tool_result = <<>>
    /\ workflow = <<>>
    /\ node_idx = 0
    /\ chunks = <<>>
    /\ sse = <<>>
    /\ workflow_data = <<>>
    /\ calls = <<>>
    /\ stub \in Stubs
    /\ consuming = TRUE
    /\ data = <<>>
    /\ python_input = <<>>
    /\ ClientInit
    /\ NoReplay

\* Pulled with chat running on its own, whether or not anyone reads.
PulledRegardless == TRUE

\* "async for chunk in claude_service.chat(...)" inside a generator that the
\* response iterates: the generators run only while the next item is asked
\* for, and are closed where they stand when that stops.
Pulled == consuming

\* chat yields a chunk and event_generator forwards it.
Yield(chunk) ==
    /\ chunks' = Append(chunks, chunk)
    /\ sse' = sse \o Forward(chunk)
    /\ workflow_data' = IF chunk.type = "workflow" THEN chunk.content ELSE workflow_data

NoYield == UNCHANGED <<chunks, sse, workflow_data>>

\* Raise with the except clause only logging.
RaiseSilently ==
    /\ pc' = "done"
    /\ UNCHANGED <<sse, chunks, workflow_data>>

\* An exception leaves chat: the except clause of event_generator sends a
\* stream error and the generator ends.
Raise ==
    /\ sse' = Append(sse, SseEvent("error", <<"Stream", "error">>, "", FALSE, 0, 0))
    /\ pc' = "done"
    /\ UNCHANGED <<chunks, workflow_data>>

\* messages.append: messages is the caller's list itself unless that was empty.
AppendMessages(new) ==
    /\ messages' = messages \o new
    /\ conversation_history' =
          IF conversation_history # <<>> THEN conversation_history \o new
          ELSE conversation_history

\* event_generator sends the start event.
Start ==
    /\ pc = "start"
    /\ Pulled
    /\ sse' = Append(sse, SseEvent("start", <<>>, "", FALSE, 0, 0))
    /\ pc' = "chat"
    /\ UNCHANGED <<conversation_history, messages, chatVars, chunks, workflow_data, calls, stub,
                   consuming, unitVars>>

\* chat up to the loop: the message list and the counters.
ChatBegin ==
    /\ pc = "chat"
    /\ Pulled
    /\ messages' = Append(conversation_history,
                          Message("user", <<Block("string", UserMessage, 0, "", "absent")>>))
    /\ conversation_history' =
          IF conversation_history # <<>> THEN messages' ELSE conversation_history
    /\ accumulated_text' = <<>>
    /\ iteration' = 0
    /\ pc' = "loop"
    /\ NoYield
    /\ UNCHANGED <<retry, retry_delay, response, block_idx, assistant_content, tool_result,
                   workflow, node_idx, calls, stub, consuming, unitVars>>

\* LoopHeadContinues with the comparison off by one.
LoopHeadContinuesInclusive == iteration <= max_iterations

\* LoopHeadContinues with no bound on the turns.
LoopHeadContinuesAlways == TRUE

\* while iteration < max_iterations, and the error after the loop.
LoopHeadContinues == iteration < max_iterations

\* RetryStart with the retry counter of the turn before carried on.
RetryStartCarried(previous) == previous

\* for retry in range(max_retries): the counter a turn's retry loop starts at.
RetryStart(previous) == 0

LoopHead ==
    /\ pc = "loop"
    /\ Pulled
    /\ IF LoopHeadContinues
       THEN /\ retry' = RetryStart(retry)
            /\ retry_delay' = initial_retry_delay
            /\ pc' = "call"
            /\ NoYield
       ELSE /\ Yield(Chunk("error", <<"Maximum", "iterations">>, "", 0, 0))
            /\ pc' = "after_chat"
            /\ UNCHANGED <<retry, retry_delay>>
    /\ UNCHANGED <<conversation_history, messages, accumulated_text, iteration, response,
                   block_idx, assistant_content, tool_result, workflow, node_idx, calls, stub,
                   consuming, unitVars>>

\* ShouldRetry with no attempt left after the first.
ShouldRetryNever == FALSE

\* if retry < max_retries - 1: wait and try again, else give up.
ShouldRetry == retry < max_retries - 1

\* Retryable with every provider failure waited on and retried.
RetryableAlways(kind) == kind # "ok"

\* except RateLimitError: the one failure that is waited on and retried;
\* everything else falls to except Exception.
Retryable(kind) == kind = "rate_limit"

\* The outcomes the environment may give the next messages.create call.
ProviderChoices ==
    IF stub # "free" THEN {StubOutcome(stub, retry, iteration)}
    ELSE IF NumCalls("provider") < MaxVaried THEN Outcomes
    ELSE FinalOutcomes

\* One attempt of the retry loop: messages.create and its except clauses.
CallProvider ==
    /\ pc = "call"
    /\ Pulled
    /\ \E o \in ProviderChoices :
          /\ calls' = Append(calls, Call("provider", o.kind, 0, Len(sse)))
          /\ IF o.kind = "ok"
             THEN /\ response' = [o EXCEPT !.content = WithIds(o.content, NumCalls("provider") + 1)]
                  /\ iteration' = iteration + 1
                  /\ block_idx' = 1
                  /\ assistant_content' = <<>>
                  /\ pc' = "blocks"
                  /\ NoYield
             ELSE /\ IF Retryable(o.kind)
                     THEN IF ShouldRetry
                          THEN /\ Yield(Chunk("message", <<"retrying", "in", ToString(retry_delay)>>,
                                              "", 0, 0))
                               /\ pc' = "sleep"
                          ELSE /\ Yield(Chunk("error", <<"Rate", "limit", "exceeded">>, "", 0, 0))
                               /\ pc' = "after_chat"
                     ELSE /\ Yield(Chunk("error", <<"Error", "communicating", o.kind>>, "", 0, 0))
                          /\ pc' = "after_chat"
                  /\ UNCHANGED <<response, iteration, block_idx, assistant_content>>
    /\ UNCHANGED <<conversation_history, messages, accumulated_text, retry, retry_delay,
                   tool_result, workflow, node_idx, stub, consuming, unitVars>>

\* NextDelay with the delay left as it is.
NextDelaySame(delay) == delay

\* retry_delay *= 2
NextDelay(delay) == delay * 2

\* asyncio.sleep(retry_delay), the doubling, and the next round of
\* "for retry in range(max_retries)"; a loop that runs out falls through to
\* the processing of response.
Sleep ==
    /\ pc = "sleep"
    /\ Pulled
    /\ calls' = Append(calls, Call("sleep", "", retry_delay, Len(sse)))
    /\ retry_delay' = NextDelay(retry_delay)
    /\ retry' = retry + 1
    /\ IF retry + 1 < max_retries
       THEN /\ pc' = "call"
            /\ NoYield
            /\ UNCHANGED <<block_idx, assistant_content>>
       ELSE IF response = NoResponse
            THEN /\ Raise
                 /\ UNCHANGED <<block_idx, assistant_content>>
            ELSE /\ pc' = "blocks"
                 /\ block_idx' = 1
                 /\ assistant_content' = <<>>
                 /\ NoYield
    /\ UNCHANGED <<conversation_history, messages, accumulated_text, iteration, response,
                   tool_result, workflow, node_idx, stub, consuming, unitVars>>

\* NextBlock with every second block passed over.
NextBlockSkipping(idx) == idx + 2

\* for block in response.content: the position of the block after this one.
NextBlock(idx) == idx + 1

\* One round of "for block in response.content", up to the tool call.
ProcessBlock ==
    /\ pc = "blocks"
    /\ Pulled
    /\ block_idx <= Len(response.content)
    /\ LET block == response.content[block_idx] IN
       CASE block.type = "text" ->
              /\ accumulated_text' = accumulated_text \o block.text
              /\ Yield(Chunk("message", block.text, "", 0, 0))
              /\ assistant_content' = Append(assistant_content, TextBlock(block.text))
              /\ block_idx' = NextBlock(block_idx)
              /\ pc' = "blocks"
         [] block.type = "tool_use" ->
              /\ Yield(Chunk("tool_use", <<>>, block.name, 0, 0))
              /\ assistant_content' = Append(assistant_content, ToolUseBlock(block.id, block.name))
              /\ pc' = "tool"
              /\ UNCHANGED <<accumulated_text, block_idx>>
         [] OTHER ->
              /\ block_idx' = NextBlock(block_idx)
              /\ NoYield
              /\ UNCHANGED <<accumulated_text, assistant_content, pc>>
    /\ UNCHANGED <<conversation_history, messages, iteration, retry, retry_delay, response,
                   tool_result, workflow, node_idx, calls, stub, consuming, unitVars>>

\* What can happen inside _execute_tool for a known tool: success, or an
\* exception while converting the input, in the MCP call, or in json.dumps.
ToolOutcomes == {"ok", "raise_convert", "raise_call", "raise_dumps"}

\* The outcomes the environment may give the next tool execution.
ToolChoices ==
    IF stub = "failing_tools" THEN {"raise_call"}
    ELSE IF stub # "free" THEN {"ok"}
    ELSE IF NumCalls("provider") = 1 THEN ToolOutcomes
    ELSE {"ok", "raise_call"}

OkResult == <<"{", "\"results\"", ":", "[", "]", "}">>
ErrorResult(message) == <<"{", "\"error\"", ":", message, "}">>

\* _execute_tool: the string it returns.
_execute_tool(tool_name, outcome) ==
    IF tool_name \notin method_map THEN ErrorResult("\"Unknown tool\"")
    ELSE IF outcome = "ok" THEN OkResult
    ELSE ErrorResult("\"" \o outcome \o "\"")

\* CaughtInExecuteTool with the try block around the MCP call alone.
CaughtAroundCallOnly(outcome) == outcome = "raise_call"

\* try ... except Exception encloses the whole body of _execute_tool: the key
\* conversion, the MCP call and json.dumps.
CaughtInExecuteTool(outcome) == outcome \in {"raise_convert", "raise_call", "raise_dumps"}

\* _execute_tool: the MCP method it calls, if it gets that far.
Invoked(tool_name, outcome) ==
    IF tool_name \in method_map /\ outcome # "raise_convert" THEN <<tool_name>> ELSE <<>>

\* await self._execute_tool(...) and the tool_result chunk.
ExecuteTool ==
    /\ pc = "tool"
    /\ Pulled
    /\ LET block == response.content[block_idx] IN
       \E outcome \in ToolChoices :
          /\ calls' = calls \o [i \in 1..Len(Invoked(block.name, outcome)) |->
                                   Call("tool", Invoked(block.name, outcome)[i], block.id,
                                        Len(sse))]
          /\ IF block.name \in method_map /\ outcome # "ok" /\ ~CaughtInExecuteTool(outcome)
             THEN /\ Raise
                  /\ UNCHANGED tool_result
             ELSE /\ tool_result' = _execute_tool(block.name, outcome)
                  /\ Yield(Chunk("tool_result", tool_result', block.name, 0, 0))
                  /\ pc' = "append"
    /\ UNCHANGED <<conversation_history, messages, accumulated_text, iteration, retry,
                   retry_delay, response, block_idx, assistant_content, workflow, node_idx, stub,
                   consuming, unitVars>>

\* ToolResultBlock without the id of the tool use.
ToolResultBlockUnlinked(tool_use_id, content) == Block("tool_result", content, 0, "", "absent")

\* The tool_result block chat builds.
ToolResultBlock(tool_use_id, content) == Block("tool_result", content, tool_use_id, "", "absent")

\* The two messages.append after a tool call, and the reset of assistant_content.
AppendToolResult ==
    /\ pc = "append"
    /\ Pulled
    /\ AppendMessages(<<Message("assistant", assistant_content),
                        Message("user", <<ToolResultBlock(response.content[block_idx].id,
                                                           tool_result)>>)>>)
    /\ assistant_content' = <<>>
    /\ block_idx' = NextBlock(block_idx)
    /\ pc' = "blocks"
    /\ NoYield
    /\ UNCHANGED <<accumulated_text, iteration, retry, retry_delay, response, tool_result,
                   workflow, node_idx, calls, stub, consuming, unitVars>>

\* StopBranch with a truncated response treated like a finished one.
StopBranchExtractsTruncated(stop_reason) ==
    CASE stop_reason \in {"end_turn", "max_tokens"} -> "extract"
      [] stop_reason = "tool_use" -> "continue"
      [] OTHER -> "return"

\* StopBranch with a truncated response ending the run without a notice.
StopBranchTruncatedSilent(stop_reason) ==
    CASE stop_reason = "end_turn" -> "extract"
      [] stop_reason = "tool_use" -> "continue"
      [] OTHER -> "return"

\* The branch of "Check stop reason" taken for a stop reason.
StopBranch(stop_reason) ==
    CASE stop_reason = "end_turn" -> "extract"
      [] stop_reason = "tool_use" -> "continue"
      [] stop_reason = "max_tokens" -> "truncated"
      [] OTHER -> "return"

\* Check stop reason, with the extraction and the workflow_clear chunk.
CheckStop ==
    /\ pc = "blocks"
    /\ Pulled
    /\ block_idx > Len(response.content)
    /\ LET branch == StopBranch(response.stop_reason) IN
       CASE branch = "extract" ->
              /\ workflow' = _extract_workflow(accumulated_text)
              /\ IF workflow' # <<>>
                 THEN /\ Yield(Chunk("workflow_clear", <<>>, "", 0, 0))
                      /\ node_idx' = 1
                      /\ pc' = "nodes"
                 ELSE /\ NoYield
                      /\ pc' = "after_chat"
                      /\ UNCHANGED node_idx
         [] branch = "continue" ->
              /\ pc' = "loop"
              /\ NoYield
              /\ UNCHANGED <<workflow, node_idx>>
         [] branch = "truncated" ->
              /\ Yield(Chunk("message", <<"Response", "truncated">>, "", 0, 0))
              /\ pc' = "after_chat"
              /\ UNCHANGED <<workflow, node_idx>>
         [] OTHER ->
              /\ pc' = "after_chat"
              /\ NoYield
              /\ UNCHANGED <<workflow, node_idx>>
    /\ UNCHANGED <<conversation_history, messages, accumulated_text, iteration, retry,
                   retry_delay, response, block_idx, assistant_content, tool_result, calls, stub,
                   consuming, unitVars>>

\* workflow.get('nodes', []) as the sequence "for index, node in enumerate" walks.
Nodes(wf) == Iterate(DictGet(wf, NodesKey, <<"[", "]">>))

\* node.get('name') in the log line needs a dict.
NodeLoggable(node) == isdict(node)

\* One round of the node loop, and after it the workflow chunk and the return.
StreamNode ==
    /\ pc = "nodes"
    /\ Pulled
    /\ LET nodes == Nodes(workflow) IN
       IF node_idx <= Len(nodes)
       THEN IF NodeLoggable(nodes[node_idx])
            THEN /\ Yield(Chunk("workflow_node", nodes[node_idx], "", node_idx - 1, Len(nodes)))
                 /\ node_idx' = node_idx + 1
                 /\ pc' = "nodes"
            ELSE /\ Raise
                 /\ UNCHANGED node_idx
       ELSE /\ Yield(Chunk("workflow", workflow, "", 0, 0))
            /\ pc' = "after_chat"
            /\ UNCHANGED node_idx
    /\ UNCHANGED <<conversation_history, messages, accumulated_text, iteration, retry,
                   retry_delay, response, block_idx, assistant_content, tool_result, workflow,
                   calls, stub, consuming, unitVars>>

\* After the chunk loop: the workflow event, if a workflow chunk was stored.
SendWorkflow ==
    /\ pc = "after_chat"
    /\ Pulled
    /\ sse' = IF workflow_data # <<>>
              THEN Append(sse, SseEvent("workflow", workflow_data, "", FALSE, 0, 0))
              ELSE sse
    /\ pc' = "save"
    /\ UNCHANGED <<conversation_history, messages, chatVars, chunks, workflow_data, calls, stub,
                   consuming, unitVars>>

\* The save of the conversation (its failures are swallowed) and the done event.
Complete ==
    /\ pc = "save"
    /\ Pulled
    /\ sse' = Append(sse, SseEvent("done", <<>>, "", FALSE, 0, 0))
    /\ pc' = "done"
    /\ UNCHANGED <<conversation_history, messages, chatVars, chunks, workflow_data, calls, stub,
                   consuming, unitVars>>

\* The client goes away: nothing asks for the next event any more.
StopConsuming ==
    /\ consuming
    /\ pc # "done"
    /\ consuming' = FALSE
    /\ UNCHANGED <<pc, conversation_history, messages, chatVars, chunks, sse, workflow_data,
                   calls, stub, unitVars>>

Next ==
    \/ Start
    \/ ChatBegin
    \/ LoopHead
    \/ CallProvider
    \/ Sleep
    \/ ProcessBlock
    \/ ExecuteTool
    \/ AppendToolResult
    \/ CheckStop
    \/ StreamNode
    \/ SendWorkflow
    \/ Complete

\* The runs whose client reads the stream to its end.
Spec == Init /\ [][Next]_vars

\* The runs in which every awaited call returns and the client keeps reading:
\* a step that can be taken is taken in the end.  This is WF_vars(Next) with
\* ENABLED <<Next>>_vars written out: a step can be taken in every state but
\* the final one (pc = "done").
\* The history takes no part in the control flow; the runs start from the
\* loaded history that chat appends to.
InitFair == Init /\ conversation_history # <<>>

SpecFair == InitFair /\ [][Next]_vars /\ ([]<>(pc = "done") \/ []<><<Next>>_vars)

\* The runs whose client may stop reading at any point.
SpecDisconnect == Init /\ [][Next \/ StopConsuming]_vars

TypeOK ==
    /\ pc \in {"start", "chat", "loop", "call", "sleep", "blocks", "tool", "append", "nodes",
               "after_chat", "save", "done"}
    /\ iteration \in 0..max_iterations
    /\ retry \in 0..(max_retries - 1)

(***************************************************************************)
(* Vocabulary of the claims.                                               *)
(***************************************************************************)
Terminal(e) == e.type \in {"done", "error"}
ArtifactTypes == {"workflow_clear", "workflow_node", "workflow"}
HasEvent(type) == \E i \in 1..Len(sse) : sse[i].type = type
ChatEnded == pc \in {"after_chat", "save", "done"}
ProviderCalls == SelectSeq(calls, LAMBDA c : c.kind = "provider")
OkCalls == Cardinality({i \in 1..Len(calls) : calls[i].kind = "provider" /\ calls[i].name = "ok"})
LimitError == Chunk("error", <<"Maximum", "iterations">>, "", 0, 0)
RateLimitError == Chunk("error", <<"Rate", "limit", "exceeded">>, "", 0, 0)
IsErrorResult(text) == Len(text) > 2 /\ text[2] = "\"error\""

\* The number of rate-limit failures at the end of a sequence of provider calls.
RECURSIVE TrailingRateLimits(_)
TrailingRateLimits(cs) ==
    IF cs = <<>> \/ cs[Len(cs)].name # "rate_limit" THEN 0
    ELSE 1 + TrailingRateLimits(SubSeq(cs, 1, Len(cs) - 1))

(***************************************************************************)
(* Claims.                                                                 *)
(***************************************************************************)

\* C1: in every run of the chat stream the first event is start, start is
\* sent exactly once and before any outgoing call, and when the run has
\* finished the last event sent is a terminal event (done or error).
C1_StartFirstTerminalLast ==
    /\ sse # <<>> => sse[1].type = "start"
    /\ Cardinality({i \in 1..Len(sse) : sse[i].type = "start"}) <= 1
    /\ pc # "start" => sse # <<>>
    /\ \A j \in 1..Len(calls) : calls[j].at >= 1
    /\ pc = "done" => sse # <<>> /\ Terminal(sse[Len(sse)])

\* C1 witness: a run that was cut short by an exception inside chat, after
\* tool use, and has finished.
C1_Witness ==
    /\ pc = "done"
    /\ sse[Len(sse)].type = "error"
    /\ HasEvent("workflow_clear")
    /\ HasEvent("tool_result")

\* C2: at most one terminal event occurs in a stream and nothing follows it
\* (no stream holds both an error and a done).
C2_NothingAfterTerminal ==
    \A i \in 1..Len(sse) : Terminal(sse[i]) => i = Len(sse)

\* C3: no artifact event is sent unless the last provider turn ended with
\* end_turn, every provider and tool call precedes the first artifact event,
\* and no tool_use or tool_result event follows an artifact event.
C3_ArtifactsOnlyAfterEndTurn ==
    \A i \in 1..Len(sse) :
        sse[i].type \in ArtifactTypes =>
            /\ response.kind = "ok"
            /\ response.stop_reason = "end_turn"
            /\ \A j \in 1..Len(calls) : calls[j].kind \in {"provider", "tool"} => calls[j].at < i
            /\ \A k \in (i + 1)..Len(sse) : sse[k].type \notin {"tool_use", "tool_result"}

\* C3 witness: a finished run that used a tool and then sent a workflow.
C3_Witness ==
    /\ pc = "done"
    /\ HasEvent("workflow")
    /\ HasEvent("workflow_node")
    /\ \E j \in 1..Len(calls) : calls[j].kind = "tool"

\* The artifact events of the stream, in order.
ArtifactEvents == SelectSeq(sse, LAMBDA e : e.type \in ArtifactTypes)

\* C4: in a finished run that ended with end_turn, artifact events were sent
\* if and only if the extractor accepts an artifact in the accumulated text,
\* and then they are workflow_clear, zero or more workflow_node, and exactly
\* one workflow event carrying the full value.
C4_ArtifactSequence ==
    (pc = "done" /\ response.kind = "ok" /\ response.stop_reason = "end_turn") =>
        LET art == ArtifactEvents IN
        LET wf == _extract_workflow(accumulated_text) IN
        IF wf = <<>> THEN art = <<>>
        ELSE /\ Len(art) >= 2
             /\ art[1].type = "workflow_clear"
             /\ art[Len(art)].type = "workflow"
             /\ art[Len(art)].data = wf
             /\ \A k \in 2..(Len(art) - 1) : art[k].type = "workflow_node"

\* The workflow_node events of the stream, in order.
NodeEvents == SelectSeq(sse, LAMBDA e : e.type = "workflow_node")

\* C5: for an accepted artifact whose nodes list has n elements, a finished
\* run has sent exactly n workflow_node events, the k-th carrying element k,
\* index k and total n, and after them one workflow event with the full object.
C5_OneChunkPerElement ==
    (pc = "done" /\ workflow # <<>> /\ islist(DictGet(workflow, NodesKey, <<"[", "]">>))) =>
        LET elems == ListItems(DictGet(workflow, NodesKey, <<"[", "]">>)) IN
        /\ Len(NodeEvents) = Len(elems)
        /\ \A k \in 1..Len(elems) :
              /\ NodeEvents[k].data = elems[k]
              /\ NodeEvents[k].index = k - 1
              /\ NodeEvents[k].total = Len(elems)
        /\ \E i \in 1..Len(sse) :
              /\ sse[i].type = "workflow"
              /\ sse[i].data = workflow
              /\ \A k \in 1..(i - 1) : sse[k].type # "workflow"

\* C6: the number of successful provider calls never exceeds max_iterations;
\* when every provider response has stop reason tool_use, chat ends after
\* exactly max_iterations loop bodies with the iteration-limit error, and that
\* error is never produced earlier.
C6_IterationBound ==
    /\ OkCalls <= max_iterations
    /\ iteration = OkCalls
    /\ (ChatEnded /\ stub \in {"tool_loop", "failing_tools", "flaky"}) =>
          /\ OkCalls = max_iterations
          /\ chunks[Len(chunks)] = LimitError
    /\ \A i \in 1..Len(chunks) :
          chunks[i] = LimitError => OkCalls = max_iterations /\ i = Len(chunks)

\* C6 witness: the always-tool_use provider has driven chat to its end.
C6_Witness ==
    /\ stub = "tool_loop"
    /\ pc = "done"
    /\ chunks[Len(chunks)] = LimitError
    /\ NumCalls("tool") = max_iterations

\* C7: when a provider turn ends with a stop reason other than end_turn,
\* tool_use and max_tokens, the finished run has sent an error and no done.
C7_UnknownStopIsError ==
    (pc = "done" /\ response.kind = "ok"
        /\ response.stop_reason \notin {"end_turn", "tool_use", "max_tokens"}) =>
            HasEvent("error") /\ ~HasEvent("done")

\* C8: a failed tool execution is threaded back as a tool_result block with
\* is_error true that references the tool use of the assistant message before
\* it, no error event is sent for it, and the run goes on.
C8_ToolFailureThreaded ==
    \A i \in 1..Len(messages) :
        \A j \in 1..Len(messages[i].content) :
            LET b == messages[i].content[j] IN
            (b.type = "tool_result" /\ IsErrorResult(b.text)) =>
                /\ b.is_error = "true"
                /\ i > 1
                /\ \E k \in 1..Len(messages[i - 1].content) :
                      /\ messages[i - 1].content[k].type = "tool_use"
                      /\ messages[i - 1].content[k].id = b.id
                /\ (pc = "blocks" /\ i = Len(messages)) => ~HasEvent("error")

\* C9: _execute_tool never raises into the loop: every tool_use chunk is
\* answered by a tool_result chunk for the same tool, which for an unknown
\* name and for an exception at any place inside is the structured error
\* result, and the only MCP method ever invoked is that of the requested tool.
C9_ExecuteToolNeverRaises ==
    /\ \A i \in 1..Len(chunks) :
          chunks[i].type = "tool_use" =>
              /\ i = Len(chunks) => pc = "tool"
              /\ i < Len(chunks) =>
                    /\ chunks[i + 1].type = "tool_result"
                    /\ chunks[i + 1].tool_name = chunks[i].tool_name
                    /\ chunks[i + 1].content = OkResult \/ IsErrorResult(chunks[i + 1].content)
                    /\ chunks[i].tool_name \notin method_map =>
                          chunks[i + 1].content = ErrorResult("\"Unknown tool\"")
    /\ \A j \in 1..Len(calls) :
          calls[j].kind = "tool" =>
              /\ calls[j].name \in method_map
              /\ sse[calls[j].at].type = "tool_use"
              /\ sse[calls[j].at].tool_name = calls[j].name

\* C9 witness: a finished run in which an unknown tool was requested and in
\* which a known tool failed while its input was converted.
C9_Witness ==
    /\ pc = "done"
    /\ \E i \in 1..Len(chunks) : chunks[i].content = ErrorResult("\"raise_convert\"")
    /\ \E i \in 1..Len(chunks) : chunks[i].content = ErrorResult("\"Unknown tool\"")

\* C10: the rate-limit error ends a turn on the (max_retries + 1)-th
\* consecutive failure, after max_retries retries, and no provider call or
\* backoff wait follows it.
C10_ErrorAfterMaxRetriesRetries ==
    \A i \in 1..Len(chunks) :
        chunks[i] = RateLimitError =>
            /\ TrailingRateLimits(ProviderCalls) = max_retries + 1
            /\ i = Len(chunks)
            /\ calls[Len(calls)].kind = "provider"

\* Call i belongs to the turn of the later call j: no successful provider
\* call from i up to j.
SameTurn(i, j) == \A m \in i..(j - 1) : ~(calls[m].kind = "provider" /\ calls[m].name = "ok")

\* The backoff waits of the turn of call j that were made before it.
WaitsBefore(j) ==
    Cardinality({i \in 1..(j - 1) : calls[i].kind = "sleep" /\ SameTurn(i, j)})

\* The longest wait the retry budget of a turn allows.
LongestWait == initial_retry_delay * 2 ^ (max_retries - 2)

\* C11: within one turn the wait before the k-th retry (k = 0, 1, ...) is
\* initial_retry_delay * 2^k; the waits of a turn are non-decreasing and no
\* wait exceeds the longest wait the retry budget allows.
C11_BackoffWaits ==
    \A j \in 1..Len(calls) :
        calls[j].kind = "sleep" =>
            /\ calls[j].arg = initial_retry_delay * 2 ^ WaitsBefore(j)
            /\ calls[j].arg <= LongestWait
            /\ \A i \in 1..(j - 1) :
                  (calls[i].kind = "sleep" /\ SameTurn(i, j)) => calls[i].arg <= calls[j].arg

\* C11 witness: a later turn of a run has waited twice, after an earlier
\* turn that had waited twice and then succeeded.
C11_Witness ==
    \E j \in 1..Len(calls) :
        /\ calls[j].kind = "sleep"
        /\ WaitsBefore(j) = 1
        /\ \E i \in 1..(j - 1) : calls[i].kind = "provider" /\ calls[i].name = "ok"
        /\ \E i \in 1..(j - 1) : calls[i].kind = "sleep" /\ WaitsBefore(i) = 1

\* The error chunk of except Exception, as event_generator sends it.
CommunicationError(kind) == SseEvent("error", <<"Error", "communicating", kind>>, "", FALSE, 0, 0)
RetryNotice(e) == e.type = "message" /\ e.data # <<>> /\ e.data[1] = "retrying"

\* C12: a permanent provider failure is not retried: the failing attempt is
\* the last call of the run (no provider call, backoff wait or tool call
\* follows it), the error event is sent right after it, no retry notice
\* follows it, and chat has ended.
C12_PermanentFailureNotRetried ==
    \A j \in 1..Len(calls) :
        (calls[j].kind = "provider" /\ calls[j].name = "permanent") =>
            /\ j = Len(calls)
            /\ ChatEnded
            /\ Len(sse) > calls[j].at
            /\ sse[calls[j].at + 1] = CommunicationError("permanent")
            /\ \A k \in (calls[j].at + 2)..Len(sse) : sse[k].type = "done"

\* C12 witness: a finished run whose second turn, after a tool was executed,
\* failed permanently.
C12_Witness ==
    /\ pc = "done"
    /\ calls[Len(calls)].name = "permanent"
    /\ \E i \in 1..Len(calls) : calls[i].kind = "tool"
    /\ HasEvent("tool_result")

\* C13: a provider timeout is handled like rate limiting: it is retried after
\* a backoff wait, and an error event is sent for it only when the retries of
\* the turn are used up.
C13_TimeoutRetried ==
    \A j \in 1..Len(calls) :
        (calls[j].kind = "provider" /\ calls[j].name = "timeout") =>
            /\ Len(sse) > calls[j].at
            /\ sse[calls[j].at + 1].type = "error" => WaitsBefore(j) = max_retries - 1
            /\ sse[calls[j].at + 1].type # "error" =>
                  /\ RetryNotice(sse[calls[j].at + 1])
                  /\ j < Len(calls) => calls[j + 1].kind = "sleep"

\* C14: a rate-limit failure that is retried sends exactly one retry notice,
\* which names the wait, before the backoff wait and the next attempt, and no
\* error event; the rate-limit error is sent only for the failure that uses up
\* the attempts of the turn, and no error precedes any call of a run, so a
\* run whose retry succeeds has sent no error up to there.
C14_OneNoticePerRetry ==
    /\ \A k \in 1..Len(sse) :
          /\ sse[k].type = "error" => \A j \in 1..Len(calls) : calls[j].at < k
          /\ RetryNotice(sse[k]) =>
                \E j \in 1..Len(calls) :
                    calls[j].kind = "provider" /\ calls[j].name = "rate_limit" /\ calls[j].at = k - 1
    /\ \A j \in 1..Len(calls) :
          (calls[j].kind = "provider" /\ calls[j].name = "rate_limit") =>
              LET waits == WaitsBefore(j) IN
              /\ Len(sse) > calls[j].at
              /\ IF waits < max_retries - 1
                 THEN /\ sse[calls[j].at + 1] =
                            SseEvent("message",
                                     <<"retrying", "in", ToString(initial_retry_delay * 2 ^ waits)>>,
                                     "", FALSE, 0, 0)
                      /\ j < Len(calls) =>
                            /\ calls[j + 1].kind = "sleep"
                            /\ calls[j + 1].at = calls[j].at + 1
                      /\ j + 1 < Len(calls) =>
                            /\ calls[j + 2].kind = "provider"
                            /\ calls[j + 2].at = calls[j].at + 1
                 ELSE sse[calls[j].at + 1] = Forward(RateLimitError)[1]

\* C14 witness: a finished run without any error event whose provider call
\* succeeded on the last attempt of a turn, after two notices and two waits.
C14_Witness ==
    /\ pc = "done"
    /\ ~HasEvent("error")
    /\ \E j \in 1..Len(calls) :
          calls[j].kind = "provider" /\ calls[j].name = "ok" /\ WaitsBefore(j) = max_retries - 1
    /\ Cardinality({k \in 1..Len(sse) : RetryNotice(sse[k])}) = max_retries - 1

TruncationNotice == Chunk("message", <<"Response", "truncated">>, "", 0, 0)

\* C15: when a turn ends with stop reason max_tokens, chat yields exactly one
\* truncation notice as its last chunk and ends; no extraction is made and no
\* artifact event is sent, whatever the accumulated text holds, and the
\* finished run ends with the notice followed by done.
C15_TruncatedTurn ==
    (ChatEnded /\ response.kind = "ok" /\ response.stop_reason = "max_tokens") =>
        /\ chunks[Len(chunks)] = TruncationNotice
        /\ Cardinality({i \in 1..Len(chunks) : chunks[i] = TruncationNotice}) = 1
        /\ workflow = <<>>
        /\ workflow_data = <<>>
        /\ \A k \in 1..Len(sse) : sse[k].type \notin ArtifactTypes \cup {"error"}
        /\ pc = "done" =>
              /\ sse[Len(sse)].type = "done"
              /\ sse[Len(sse) - 1] = Forward(TruncationNotice)[1]

\* C15 witness: a finished run whose truncated turn left a well-formed
\* workflow in the accumulated text.
C15_Witness ==
    /\ pc = "done"
    /\ response.stop_reason = "max_tokens"
    /\ _extract_workflow(accumulated_text) # <<>>

\* Message i holds a block of the given type and id.
HoldsBlock(i, type, id) ==
    \E k \in 1..Len(messages[i].content) :
        messages[i].content[k].type = type /\ messages[i].content[k].id = id
IsToolResultMessage(m) == Len(m.content) = 1 /\ m.content[1].type = "tool_result"
ToolResultChunks == {i \in 1..Len(chunks) : chunks[i].type = "tool_result"}
ToolResultMessages == {i \in 1..Len(messages) : IsToolResultMessage(messages[i])}

\* The tool_result blocks of messages and the tool_use blocks they answer.
ToolResultsAnswerToolUses ==
    /\ \A i \in 1..Len(messages) :
          \A k \in 1..Len(messages[i].content) :
              LET b == messages[i].content[k] IN
              /\ b.type = "tool_result" =>
                    /\ messages[i].role = "user"
                    /\ IsToolResultMessage(messages[i])
                    /\ i > 1
                    /\ messages[i - 1].role = "assistant"
                    /\ HoldsBlock(i - 1, "tool_use", b.id)
              /\ b.type = "tool_use" =>
                    /\ i < Len(messages)
                    /\ IsToolResultMessage(messages[i + 1])
                    /\ messages[i + 1].content[1].id = b.id
                    /\ \A n \in 1..Len(messages[i].content) :
                          messages[i].content[n].type = "tool_use" => n = k
    /\ LET answered == ToolResultMessages IN
       /\ \A i \in answered : \A n \in answered :
             i < n => messages[i].content[1].id < messages[n].content[1].id
       /\ Cardinality(answered) =
             Cardinality(ToolResultChunks) - (IF pc = "append" THEN 1 ELSE 0)

\* C16: at every point of a run, every tool_result block in messages is
\* alone in a user message that comes right after an assistant message
\* holding the tool_use block with the same id; every tool_use block in
\* messages is the only one of its message and is answered by the message
\* after it; the ids of the tool_result messages increase, so that no tool use
\* is answered twice; and every tool execution of the run has its tool_result
\* message (the last one as soon as it is appended).
C16_ToolResultReferencesToolUse == []ToolResultsAnswerToolUses

\* C16 witness: a finished run that executed two tools of one turn and a tool
\* of a later turn, on top of a history the caller supplied.
C16_Witness ==
    /\ pc = "done"
    /\ Cardinality(ToolResultMessages) = 3
    /\ Cardinality({calls[j].at : j \in {i \in 1..Len(calls) : calls[i].kind = "provider"}}) >= 2
    /\ messages[1].content[1].type = "string"
    /\ \E i \in 1..Len(messages) : \E n \in 1..Len(messages) :
          /\ IsToolResultMessage(messages[i])
          /\ IsToolResultMessage(messages[n])
          /\ messages[n].content[1].id = messages[i].content[1].id + 1

\* C17: with a search tool that succeeds, a first provider turn that asks for
\* it (stop reason tool_use) and a second turn of one plain text block with
\* end_turn, the finished run has sent exactly start, tool_use(search),
\* tool_result(search, success), message(text), done; every unfinished run
\* has sent a prefix of that.
C17_SearchThenText ==
    stub = "search_then_text" =>
        LET expected ==
                <<SseEvent("start", <<>>, "", FALSE, 0, 0),
                  SseEvent("tool_use", <<>>, "search_nodes", FALSE, 0, 0),
                  SseEvent("tool_result", <<>>, "search_nodes", TRUE, 0, 0),
                  SseEvent("message", TextPlain, "", FALSE, 0, 0),
                  SseEvent("done", <<>>, "", FALSE, 0, 0)>> IN
        /\ Len(sse) <= Len(expected)
        /\ sse = SubSeq(expected, 1, Len(sse))
        /\ pc = "done" => sse = expected

\* C17 witness: that run has finished, after two provider calls and one
\* successful execution of the search tool.
C17_Witness ==
    /\ stub = "search_then_text"
    /\ pc = "done"
    /\ NumCalls("provider") = 2
    /\ NumCalls("tool") = 1
    /\ tool_result = OkResult

ToolCalls == SelectSeq(calls, LAMBDA c : c.kind = "tool")
ToolUseBlocks == SelectSeq(response.content, LAMBDA b : b.type = "tool_use")
TurnProcessed == pc = "blocks" /\ block_idx > Len(response.content)

\* The tool_use events sent since the last provider call.
ToolUseEventsOfTurn ==
    LET last == CHOOSE j \in 1..Len(calls) :
                    calls[j].kind = "provider"
                       /\ \A m \in (j + 1)..Len(calls) : calls[m].kind # "provider" IN
    SelectSeq(SubSeq(sse, calls[last].at + 1, Len(sse)), LAMBDA e : e.type = "tool_use")

\* The order of the events and calls of tool use.
ToolUsesInOrder ==
    /\ \A k \in 1..Len(sse) :
          sse[k].type = "tool_use" =>
              /\ k = Len(sse) => pc = "tool"
              /\ k < Len(sse) =>
                    sse[k + 1].type = "tool_result" /\ sse[k + 1].tool_name = sse[k].tool_name
    /\ \A j \in 1..Len(calls) :
          /\ calls[j].at >= 1
          /\ (sse[calls[j].at].type = "tool_use") = (calls[j].kind = "tool")
          /\ j < Len(calls) => calls[j + 1].at >= calls[j].at
          /\ calls[j].kind = "tool" =>
                /\ Len(sse) > calls[j].at
                /\ j < Len(calls) => calls[j + 1].at > calls[j].at
    /\ LET tools == ToolCalls IN
       \A i \in 1..(Len(tools) - 1) : tools[i].arg < tools[i + 1].arg
    /\ TurnProcessed =>
          LET events == ToolUseEventsOfTurn IN
          LET blocks == ToolUseBlocks IN
          /\ Len(events) = Len(blocks)
          /\ \A k \in 1..Len(blocks) : events[k].tool_name = blocks[k].name

\* C18: at every point of a run, calls are made one at a time and tool uses
\* are executed in the order received: every tool_use event is followed at once by the tool_result
\* event of the same tool, so that no tool use is open when the next one is
\* announced; a tool is called right after its tool_use event and its result
\* is sent before the next call; a provider call or a wait never starts
\* while a tool use is open; tools are called in the order of their blocks;
\* and the tool_use events of a processed turn are the tool_use blocks of the
\* response, in order.
C18_OneCallAtATime == []ToolUsesInOrder

\* C18 witness: a turn with two tool-use blocks has been processed and both
\* tools were called.
C18_Witness ==
    /\ TurnProcessed
    /\ Len(ToolUseBlocks) = 2
    /\ Len(ToolCalls) >= 2
    /\ ToolCalls[Len(ToolCalls)].arg = ToolUseBlocks[2].id
    /\ ToolCalls[Len(ToolCalls) - 1].arg = ToolUseBlocks[1].id

\* C19: a run has no effect on the history the caller supplied: no step of
\* the run changes conversation_history, so that at every point of the run and
\* after it the list has the length and the contents it had before the call,
\* for empty and non-empty histories alike.
C19_HistoryUntouched == [][conversation_history' = conversation_history]_vars

NoArtifactTexts == {<<>>, TextPlain, TextMalformed, TextNoMarker}

\* C22: extraction failure is not an error: when a turn ends with end_turn
\* and the accumulated text holds no JSON, malformed JSON or JSON without
\* "nodes", chat yields nothing after the text, no artifact event and no
\* error event is sent, nothing is stored as the workflow, and the finished
\* run ends with done.
C22_ExtractionFailureIsNoError ==
    (ChatEnded /\ response.kind = "ok" /\ response.stop_reason = "end_turn"
        /\ accumulated_text \in NoArtifactTexts) =>
            /\ workflow = <<>>
            /\ workflow_data = <<>>
            /\ \A k \in 1..Len(sse) : sse[k].type \notin ArtifactTypes \cup {"error"}
            /\ \A i \in 1..Len(chunks) : chunks[i].type \in {"message", "tool_use", "tool_result"}
            /\ pc = "done" => sse[Len(sse)].type = "done"

\* C22 witness: a finished end_turn run whose text has a fenced block that
\* does not parse, and one whose fenced object lacks "nodes" after a tool use.
C22_Witness ==
    /\ pc = "done"
    /\ response.stop_reason = "end_turn"
    /\ \/ accumulated_text = TextMalformed
       \/ accumulated_text = TextNoMarker /\ HasEvent("tool_result")
    /\ sse[Len(sse)].type = "done"

(***************************************************************************)
(* _extract_workflow on its own: the text is drawn from ExtractTexts and   *)
(* the one step applies the function to it.                                *)
(***************************************************************************)
RawSmall == <<"{", NodesKey, ":", "[", "]", "}">>
RawLarge == <<"{", NodesKey, ":", "[", "1", "]", ",", "\"name\"", ":", "\"a\"", "}">>
RawNoMarker == <<"{", "\"name\"", ":", "\"a\"", "}">>
RawNested == <<"{", "\"name\"", ":", "{", NodesKey, ":", "[", "]", "}", "}">>

\* What stands before the fenced block, and what stands after it.
Prefixes == {<<>>, <<"Here">>, RawSmall \o <<" ">>, RawNoMarker}
Suffixes == {<<>>, <<" ", "done">>, RawLarge, RawNested}

\* The fenced part of a text: none, or a block opened by the json fence.
FencedObject == <<"{", NodesKey, ":", "[", "{", "\"name\"", ":", "\"a\"", "}", "]", "}">>
FencedParts ==
    {<<>>,
     <<FenceJson, " ">> \o FencedObject \o <<" ", Fence>>,
     <<FenceJson, "{", NodesKey, ":", "1", "}", Fence>>,
     <<FenceJson, "{", NodesKey, ":", "\"ab\"", "}", Fence>>,
     <<FenceJson>> \o RawNoMarker \o <<Fence>>,
     <<FenceJson, "[", "{", NodesKey, ":", "[", "]", "}", "]", Fence>>,
     <<FenceJson, "{", NodesKey, ":", "[", "{", Fence>>,
     <<FenceJson, " ">> \o FencedObject}

ExtractTexts == {p \o f \o s : p \in Prefixes, f \in FencedParts, s \in Suffixes}

\* No chat is running: the variables of the stream and of the tool-use loop
\* other than pc, accumulated_text and workflow.
NoChat ==
    /\ conversation_history = <<>>
    /\ messages = <<>>
    /\ iteration = 0
    /\ retry = 0
    /\ retry_delay = initial_retry_delay
    /\ response = NoResponse
    /\ block_idx = 0
    /\ assistant_content = <<>>
    /\ tool_result = <<>>
    /\ node_idx = 0
    /\ chunks = <<>>
    /\ sse = <<>>
    /\ workflow_data = <<>>
    /\ calls = <<>>
    /\ stub = "free"
    /\ consuming = TRUE

\* A fresh service object and a text to extract from.
InitExtract ==
    /\ pc = "extract"
    /\ accumulated_text \in ExtractTexts
    /\ workflow = <<>>
    /\ NoChat
    /\ data = <<>>
    /\ python_input = <<>>
    /\ ClientInit
    /\ NoReplay

\* workflow = self._extract_workflow(accumulated_text)
Extract ==
    /\ pc = "extract"
    /\ workflow' = _extract_workflow(accumulated_text)
    /\ pc' = "extracted"
    /\ UNCHANGED <<conversation_history, messages, accumulated_text, iteration, retry,
                   retry_delay, response, block_idx, assistant_content, tool_result, node_idx,
                   chunks, sse, workflow_data, calls, stub, consuming, unitVars>>

SpecExtract == InitExtract /\ [][Extract]_vars

\* The contents of the first fenced block of a text, white space stripped;
\* the block runs to the closing fence or, without one, to the end of the text.
FencedContents(text) ==
    LET start == find(text, {FenceJson}, 1) + 1 IN
    LET rest == SubSeq(text, start, Len(text)) IN
    LET stop == find(rest, {Fence, FenceJson}, 1) IN
    strip(IF stop = 0 THEN rest ELSE SubSeq(rest, 1, stop - 1))

\* The text has a fenced block that parses to an object with the marker
\* field as a top-level key.
FencedIsArtifact(text) ==
    /\ Contains(text, {FenceJson})
    /\ json_loads(FencedContents(text)).ok
    /\ isdict(json_loads(FencedContents(text)).val)
    /\ HasKey(json_loads(FencedContents(text)).val, NodesKey)

\* C23: once the extractor has run, a fenced block that parses to an object
\* with the marker field as a top-level key is what it returned, whatever other
\* JSON the text holds, and a fenced block that is no such object is never
\* what it returned.
C23_FencedBlockWins ==
    (pc = "extracted" /\ Contains(accumulated_text, {FenceJson})) =>
        IF FencedIsArtifact(accumulated_text)
        THEN workflow = NoWs(FencedContents(accumulated_text))
        ELSE workflow # NoWs(FencedContents(accumulated_text))

\* The regex matches of a text that parse to an object with the marker field
\* as a top-level key, in text order.
ValidCandidates(text) ==
    SelectSeq(finditer(text, 1),
              LAMBDA m : /\ json_loads(m).ok
                         /\ isdict(json_loads(m).val)
                         /\ HasKey(json_loads(m).val, NodesKey))

\* The largest of the candidates cs, the first in text order among equals.
Largest(cs) ==
    cs[CHOOSE i \in 1..Len(cs) :
          /\ \A j \in 1..Len(cs) : Len(cs[j]) <= Len(cs[i])
          /\ \A j \in 1..(i - 1) : Len(cs[j]) < Len(cs[i])]

\* C24: once the extractor has run on a text whose fenced block, if any, gave
\* no artifact, it has returned the largest valid candidate object of the
\* text, the first in text order among the largest; None if there is none.
C24_LargestCandidateWins ==
    (/\ pc = "extracted"
     /\ ~FencedIsArtifact(accumulated_text)) =>
        IF ValidCandidates(accumulated_text) = <<>>
        THEN workflow = <<>>
        ELSE workflow = NoWs(Largest(ValidCandidates(accumulated_text)))

\* The messages appended while the current response was processed: two for
\* each of its tool-use blocks.
TurnMessages ==
    SubSeq(messages, Len(messages) - 2 * Len(ToolUseBlocks) + 1, Len(messages))

\* The content blocks of the assistant messages among ms, in order.
RECURSIVE AssistantBlocks(_)
AssistantBlocks(ms) ==
    IF ms = <<>> THEN <<>>
    ELSE (IF Head(ms).role = "assistant" THEN Head(ms).content ELSE <<>>)
            \o AssistantBlocks(Tail(ms))

\* C26: when a turn with stop reason tool_use has been processed, the
\* assistant messages appended for it hold exactly the content blocks of the
\* turn, once each and in received order, trailing text included, and every
\* assistant message ends with a tool-use block and is followed by the user
\* message that holds the result of that tool use.
C26_TurnBlocksKept ==
    (TurnProcessed /\ response.stop_reason = "tool_use") =>
        /\ AssistantBlocks(TurnMessages) = response.content
        /\ \A k \in 1..Len(TurnMessages) :
              TurnMessages[k].role = "assistant" =>
                  LET c == TurnMessages[k].content IN
                  /\ c # <<>>
                  /\ c[Len(c)].type = "tool_use"
                  /\ k < Len(TurnMessages)
                  /\ TurnMessages[k + 1].role = "user"
                  /\ IsToolResultMessage(TurnMessages[k + 1])
                  /\ TurnMessages[k + 1].content[1].id = c[Len(c)].id

\* C27: when a tool call has returned and its tool_result event has been
\* sent, the success flag of the event is true exactly when the tool executor
\* returned a success payload, and false when it returned an error payload
\* (unknown tool, failed call).
C27_SuccessFlagReportsOutcome ==
    pc = "append" =>
        /\ chunks[Len(chunks)].type = "tool_result"
        /\ chunks[Len(chunks)].content = tool_result
        /\ sse[Len(sse)].type = "tool_result"
        /\ sse[Len(sse)].success = ~IsErrorResult(chunks[Len(chunks)].content)

\* C28: the iteration counter counts the successful provider responses only,
\* and every turn has its own retry budget: at an attempt of a turn, and at
\* the wait after it, the retry counter is the number of rate-limited
\* attempts of this turn and the delay is the initial one doubled that many
\* times, and the rate-limit error comes only after max_retries rate-limited
\* attempts of one turn.
C28_RetryBudgetPerTurn ==
    /\ iteration = OkCalls
    /\ pc = "call" =>
          /\ retry = TrailingRateLimits(ProviderCalls)
          /\ retry_delay = initial_retry_delay * 2 ^ retry
    /\ pc = "sleep" =>
          /\ retry = TrailingRateLimits(ProviderCalls) - 1
          /\ retry_delay = initial_retry_delay * 2 ^ retry
    /\ (chunks # <<>> /\ chunks[Len(chunks)] = RateLimitError) =>
          TrailingRateLimits(ProviderCalls) = max_retries

\* A turn that follows a turn with retries is rate limited on its first
\* attempt and is about to wait the initial delay.
C28_Witness ==
    /\ pc = "sleep"
    /\ iteration >= 1
    /\ \E i \in 1..Len(calls) : calls[i].kind = "sleep" /\ calls[i].arg > initial_retry_delay
    /\ retry = 0
    /\ retry_delay = initial_retry_delay
    /\ iteration < NumCalls("provider") - 1

\* C29: when every provider call and every tool call returns, a run makes at
\* most max_iterations * max_retries provider calls and comes to its end,
\* also when a turn has stop reason tool_use without a tool-use block and when
\* rate-limit failures and successes alternate.
C29_Terminates ==
    /\ [](NumCalls("provider") <= max_iterations * max_retries)
    /\ <>(pc = "done")

\* A run that ended after max_iterations turns of two rate limits and one
\* response with stop reason tool_use and no block.
C29_Witness ==
    /\ pc = "done"
    /\ stub = "flaky"
    /\ NumCalls("provider") = max_iterations * max_retries
    /\ response.stop_reason = "tool_use"
    /\ response.content = <<>>

(***************************************************************************)
(* _convert_keys_to_snake_case on its own.  A dict is the sequence of its   *)
(* items in insertion order, the keys distinct.                             *)
(***************************************************************************)
MaxItems == 3
InputKeys == {"includeExamples", "nodeType", "node_type", "templateId", "workflowId", "query"}
InputValues == {1, 2}

Item(key, value) == [key |-> key, value |-> value]
Keys(d) == {d[i].key : i \in 1..Len(d)}
IsDict(d) == \A i, j \in 1..Len(d) : d[i].key = d[j].key => i = j
Dicts ==
    {d \in UNION {[1..n -> [key : InputKeys, value : InputValues]] : n \in 0..MaxItems} :
        IsDict(d)}

\* key_map with the rename of workflowId left out.
key_map_three ==
    [includeExamples |-> "include_examples", nodeType |-> "node_type",
     templateId |-> "template_id"]

\* The camelCase keys and what they are renamed to.
key_map ==
    [includeExamples |-> "include_examples", nodeType |-> "node_type",
     templateId |-> "template_id", workflowId |-> "workflow_id"]

\* key_map.get(key, key)
new_key(key) == IF key \in DOMAIN key_map THEN key_map[key] ELSE key

\* result[key] = value: a key already there keeps its place.
SetItem(result, key, value) ==
    IF key \in Keys(result)
    THEN [i \in 1..Len(result) |->
             IF result[i].key = key THEN Item(key, value) ELSE result[i]]
    ELSE Append(result, Item(key, value))

\* The loop over data.items(), result being what the items before gave.
RECURSIVE ConvertItems(_, _)
ConvertItems(items, result) ==
    IF items = <<>> THEN result
    ELSE ConvertItems(Tail(items),
                      SetItem(result, new_key(Head(items).key), Head(items).value))

\* _convert_keys_to_snake_case(data): a new dict; data is only read.
_convert_keys_to_snake_case(d) == ConvertItems(d, <<>>)

\* A tool input to normalise.
InitConvert ==
    /\ pc = "convert"
    /\ data \in Dicts
    /\ python_input = <<>>
    /\ accumulated_text = <<>>
    /\ workflow = <<>>
    /\ NoChat
    /\ ClientInit
    /\ NoReplay

\* python_input = self._convert_keys_to_snake_case(tool_input)
Convert ==
    /\ pc = "convert"
    /\ python_input' = _convert_keys_to_snake_case(data)
    /\ pc' = "converted"
    /\ UNCHANGED <<data, clientVars, replayVars, conversation_history, messages, chatVars,
                   chunks, sse, workflow_data, calls, stub, consuming>>

\* The transform applied to its own result.
ConvertAgain ==
    /\ pc = "converted"
    /\ python_input' = _convert_keys_to_snake_case(python_input)
    /\ pc' = "converted_twice"
    /\ UNCHANGED <<data, clientVars, replayVars, conversation_history, messages, chatVars,
                   chunks, sse, workflow_data, calls, stub, consuming>>

NextConvert == Convert \/ ConvertAgain

SpecConvert == InitConvert /\ [][NextConvert]_vars

\* The snake_case spelling of the four known keys; any other key as it is.
Snake(key) ==
    CASE key = "includeExamples" -> "include_examples"
      [] key = "nodeType" -> "node_type"
      [] key = "templateId" -> "template_id"
      [] key = "workflowId" -> "workflow_id"
      [] OTHER -> key

\* d holds both spellings of one key.
BothSpellings(d) == \E k \in Keys(d) : Snake(k) # k /\ Snake(k) \in Keys(d)

\* r is d with the known keys renamed: the keys of r are the renamed keys of
\* d, each holds the value of the last item of d that is renamed to it, and r
\* is as long as d unless d holds both spellings of a key.
Renamed(d, r) ==
    /\ IsDict(r)
    /\ Keys(r) = {Snake(k) : k \in Keys(d)}
    /\ \A i \in 1..Len(r) :
          LET from == {j \in 1..Len(d) : Snake(d[j].key) = r[i].key} IN
          r[i].value = d[CHOOSE j \in from : \A l \in from : l <= j].value
    /\ ~BothSpellings(d) => Len(r) = Len(d)

\* C30: key normalisation never changes its argument; its result is the
\* argument with the four known camelCase keys renamed and every value and
\* other key kept, of the same size unless the argument holds both spellings
\* of a key; applied to its own result it returns that result.
C30_PureIdempotentRename ==
    /\ [][data' = data]_vars
    /\ [](pc \in {"converted", "converted_twice"} => Renamed(data, python_input))
    /\ [][pc = "converted" => python_input' = python_input]_vars

\* The transform has been applied twice to a dict with a known key, another
\* key, and both spellings of a third.
C30_Witness ==
    /\ pc = "converted_twice"
    /\ {"nodeType", "node_type", "query"} \subseteq Keys(data)
    /\ Len(python_input) = 2

(***************************************************************************)
(* Two runs on the one process: get_claude_service and get_mcp_client hand  *)
(* every run the same ClaudeService and the same N8nMcpClient.  What a run  *)
(* keeps in the locals of chat is its own; the fields of the MCP client are *)
(* the client's.  A step runs from one await to the next; the posts are     *)
(* answered without error.                                                  *)
(***************************************************************************)
MaxToolCalls == 2

Request(method, id) == [method |-> method, id |-> id]
ToolCallsSent(r) == Len(SelectSeq(sent[r], LAMBDA q : q.method = "tools/call"))

\* Two runs about to use tools, the client fresh.
InitTwoRuns ==
    /\ pc = "runs"
    /\ accumulated_text = <<>>
    /\ workflow = <<>>
    /\ NoChat
    /\ data = <<>>
    /\ python_input = <<>>
    /\ ClientInit
    /\ NoReplay

\* _call_tool up to its first await: _initialize_if_needed posts initialize
\* unless the flag is set, else the tools/call request is posted at once.
CallTool(r) ==
    /\ run_pc[r] = "idle"
    /\ ToolCallsSent(r) < MaxToolCalls
    /\ IF _initialized
       THEN /\ sent' = [sent EXCEPT ![r] = Append(@, Request("tools/call", _request_id))]
            /\ run_pc' = [run_pc EXCEPT ![r] = "call_wait"]
       ELSE /\ sent' = [sent EXCEPT ![r] = Append(@, Request("initialize", _request_id))]
            /\ run_pc' = [run_pc EXCEPT ![r] = "init_wait"]
    /\ _request_id' = _request_id + 1
    /\ UNCHANGED <<_initialized, data, python_input, replayVars, pc, conversation_history,
                   messages, chatVars, chunks, sse, workflow_data, calls, stub, consuming>>

\* The initialize post returns: the flag is set and tools/call is posted.
InitializeReturns(r) ==
    /\ run_pc[r] = "init_wait"
    /\ _initialized' = TRUE
    /\ sent' = [sent EXCEPT ![r] = Append(@, Request("tools/call", _request_id))]
    /\ _request_id' = _request_id + 1
    /\ run_pc' = [run_pc EXCEPT ![r] = "call_wait"]
    /\ UNCHANGED <<data, python_input, replayVars, pc, conversation_history, messages,
                   chatVars, chunks, sse, workflow_data, calls, stub, consuming>>

\* The tools/call post returns and the run goes on.
CallReturns(r) ==
    /\ run_pc[r] = "call_wait"
    /\ run_pc' = [run_pc EXCEPT ![r] = "idle"]
    /\ UNCHANGED <<_request_id, _initialized, sent, data, python_input, replayVars, pc,
                   conversation_history, messages, chatVars, chunks, sse, workflow_data, calls,
                   stub, consuming>>

NextTwoRuns == \E r \in Runs : CallTool(r) \/ InitializeReturns(r) \/ CallReturns(r)

SpecTwoRuns == InitTwoRuns /\ [][NextTwoRuns]_vars

\* The requests a run posts for n tool calls when no other run is there.
Alone(n) ==
    <<Request("initialize", 1)>> \o [i \in 1..n |-> Request("tools/call", i + 1)]

\* C21: the requests a run has posted are those it posts when it runs alone,
\* whatever the other run has done in between.
C21_RunsIndependent ==
    \A r \in Runs :
        /\ Len(sent[r]) <= MaxToolCalls + 1
        /\ sent[r] = SubSeq(Alone(MaxToolCalls), 1, Len(sent[r]))

(***************************************************************************)
(* Replay: one request is served, and then the same request again, with    *)
(* the provider and the tools stubbed to answer both runs alike.  The      *)
(* second run finds the locals of chat as the first run left them, and     *)
(* whatever chat does not set anew it would see.                           *)
(***************************************************************************)
\* The responses a script is made of.
ScriptOutcomes ==
    {Outcome("ok", <<TextBlock(TextWorkflow)>>, "end_turn"),
     Outcome("ok", <<>>, "end_turn"),
     Outcome("ok", <<TextBlock(TextPlain)>>, "max_tokens"),
     Outcome("ok", <<ToolUseBlock(0, "search_nodes"), TextBlock(TextPlain)>>, "tool_use"),
     Outcome("ok", <<ToolUseBlock(0, "search_nodes"), ToolUseBlock(0, "get_template")>>,
             "tool_use"),
     Outcome("ok", <<ToolUseBlock(0, "bogus_tool")>>, "tool_use"),
     Outcome("rate_limit", <<>>, ""),
     Outcome("permanent", <<>>, "")}

\* The stubs of a replay: the history the route loads, the provider's first
\* answers, and what every tool call does.
Scripts ==
    [history : Histories, provider : [1..MaxVaried -> ScriptOutcomes],
     tool : {"ok", "raise_call"}]

\* The provider's answer to its k-th call; plain text once the script is used up.
ScriptOutcome(k) ==
    IF k <= Len(script.provider) THEN script.provider[k]
    ELSE Outcome("ok", <<TextBlock(TextPlain)>>, "end_turn")

InitReplay ==
    /\ script \in Scripts
    /\ first = [run |-> 1, messages |-> <<>>, chunks |-> <<>>]
    /\ pc = "start"
    /\ conversation_history = script.history
    /\ messages = <<>>
    /\ accumulated_text = <<>>
    /\ iteration = 0
    /\ retry = 0
    /\ retry_delay = 0
    /\ response = NoResponse
    /\ block_idx = 0
    /\ assistant_content = <<>>
    /\ tool_result = <<>>
    /\ workflow = <<>>
    /\ node_idx = 0
    /\ chunks = <<>>
    /\ sse = <<>>
    /\ workflow_data = <<>>
    /\ calls = <<>>
    /\ stub = "free"
    /\ consuming = TRUE
    /\ data = <<>>
    /\ python_input = <<>>
    /\ ClientInit

\* The step is one the script allows: the provider and the tools answer as
\* the script says.
Scripted ==
    /\ pc = "call" =>
          LET k == NumCalls("provider") + 1 IN
          /\ calls'[Len(calls')].name = ScriptOutcome(k).kind
          /\ ScriptOutcome(k).kind = "ok" =>
                /\ response'.content = WithIds(ScriptOutcome(k).content, k)
                /\ response'.stop_reason = ScriptOutcome(k).stop_reason
    /\ pc = "tool" =>
          tool_result' = _execute_tool(response.content[block_idx].name, script.tool)

\* The same request comes in again: the route loads the history, a new
\* event_generator and a new chat start; the locals of the run before are
\* left as they were.
Restart ==
    /\ pc = "done"
    /\ first.run = 1
    /\ first' = [run |-> 2, messages |-> messages, chunks |-> chunks]
    /\ pc' = "start"
    /\ conversation_history' = script.history
    /\ workflow_data' = <<>>
    /\ chunks' = <<>>
    /\ sse' = <<>>
    /\ calls' = <<>>
    /\ UNCHANGED <<messages, chatVars, stub, consuming, data, python_input, clientVars, script>>

\* The steps of Next that the script allows, and the restart.
NextReplay ==
    \/ Start /\ Scripted
    \/ ChatBegin /\ Scripted
    \/ LoopHead /\ Scripted
    \/ CallProvider /\ Scripted
    \/ Sleep /\ Scripted
    \/ ProcessBlock /\ Scripted
    \/ ExecuteTool /\ Scripted
    \/ AppendToolResult /\ Scripted
    \/ CheckStop /\ Scripted
    \/ StreamNode /\ Scripted
    \/ SendWorkflow /\ Scripted
    \/ Complete /\ Scripted
    \/ Restart

SpecReplay == InitReplay /\ [][NextReplay]_vars

====
